---- MODULE Spec2Model ----
(***************************************************************************)
(* The job lifecycle engine of malfit: the upload handler that creates a   *)
(* job record and hands the job over (backend/app/main.py), the worker     *)
(* loop that pops job ids from the Redis list queue:shorts and drives the  *)
(* four pipeline stages (backend/app/worker.py), and the in-process        *)
(* driver process_job (backend/app/main.py).                               *)
(*                                                                         *)
(* Granularity: one step per Redis command (BRPOP, HGETALL, HSET; the      *)
(* HGET/HSET pair of append_log is one step, the job having one writer),   *)
(* one step per subprocess or remote call, one step per file deletion.     *)
(* Redis commands are assumed to succeed; subprocesses, remote calls and   *)
(* file deletions may fail.                                                *)
(*                                                                         *)
(* The payment claims (backend/app/payments_claim.py and                   *)
(* backend/app/app_wordpress_webhook.py): the webhooks that issue a claim  *)
(* token for a paid order and the endpoints that redeem tokens into a      *)
(* user's credits.  The handlers are coroutines: one step per await of a   *)
(* Supabase request, and every Supabase request may fail.                  *)
(***************************************************************************)
EXTENDS Integers, Sequences, FiniteSets, TLC

\* ------------------------------------------------------------------ bounds
MaxJobs == 2
NumWorkers == 2
NumThreads == 1

Jobs == 1..MaxJobs
Workers == 1..NumWorkers
Threads == (NumWorkers + 1)..(NumWorkers + NumThreads)
Procs == Workers \cup Threads

\* requests to the payment endpoints, paid orders, users
NumReqs == 3
MaxOrders == 2
NumUsers == 2

Reqs == 1..NumReqs
Orders == 1..MaxOrders
\* a user's id; the user's login email is modelled by the same number
Users == 1..NumUsers
\* the claim tokens new_claim_token can have drawn: one per request at most
Tokens == 1..NumReqs

\* ------------------------------------------------------- values of the store
\* A Redis hash field that is not set.  Every field keeps one TLA+ type:
\* strings for status and language, integers for progress (str(n) of an int
\* is its decimal numeral, compared here as the number), video (the path
\* UP/<jid>.mp4, named by the job id), createdAt, durationSec and result (the
\* three /download/<jid>/... links, named by the job id), sequences for log
\* (its lines) and error (the message, as its parts).
NoStr == "absent"
NoInt == -1
NoPath == 0
NoSeq == << >>

Languages == {"ko"}

EmptyRecord ==
    [status |-> NoStr, progress |-> NoInt, video |-> NoPath, language |-> NoStr,
     createdAt |-> NoInt, durationSec |-> NoInt, log |-> NoSeq, error |-> NoSeq,
     result |-> NoPath]

\* The files of one job id: the uploaded source (UP/<jid>.mp4) and whether it
\* holds an audio stream, the three outputs of the extraction ladder
\* (<jid>.m4a, <jid>_aac.m4a, <jid>.wav) and the three artifacts under OUT.
NoFile == "nofile"
NoFiles ==
    [video |-> FALSE, hasAudio |-> FALSE, copy |-> FALSE, aac |-> FALSE,
     wav |-> FALSE, srt |-> NoFile, rewritten |-> NoFile, vo |-> NoFile]

VARIABLES
    store,      \* Redis hashes job:<jid>
    queue,      \* Redis list queue:shorts, head = left end
    tasks,      \* background tasks added by upload and not yet started
    fs,         \* files on storage, per job id
    nextJid,    \* the next fresh job id (uuid4)
    up,         \* position of the upload handler of each job id
    form,       \* upload: the language form field of the request
    ukv,        \* upload: the fields set_status still has to write
    pc,         \* position of each worker loop / background thread
    jid,        \* its current job id (0: none)
    vid,        \* its source path (0: Path(""), the working directory)
    lang,       \* its language hint
    audio_path, \* "none" or the ladder output returned by extraction
    text,       \* [srt, rew]: the transcript and the rewritten transcript
    exc,        \* the exception being handled (its message), or << >>
    kv,         \* the fields the running set_status still has to write
    dequeued,   \* history: the workers each job id was returned to by brpop
    calls,      \* history: the probes, subprocesses, remote calls and
                \* deletions made for each job id, with their outcomes
    writes,     \* history: the status and progress fields the drivers wrote
                \* for each job id, in order
    credit_claims, \* Supabase table credit_claims, its rows in insertion order
    users,      \* Supabase table users: the credits of each user id
    nextToken,  \* the next fresh claim token (new_claim_token)
    req,        \* each payment request: its handler, position and locals
    granted     \* history: how many times each token's credits were added

vars == <<store, queue, tasks, fs, nextJid, up, form, ukv, pc, jid, vid, lang,
          audio_path, text, exc, kv, dequeued, calls, writes,
          credit_claims, users, nextToken, req, granted>>

procVars == <<pc, jid, vid, lang, audio_path, text, exc, kv>>
intakeVars == <<nextJid, up, form, ukv>>
payVars == <<credit_claims, users, nextToken, req, granted>>

NoText == [srt |-> "", rew |-> ""]

\* A payment request not yet received.  op: the handler; pc: its position;
\* order, email, user, token: its inputs (0: none); token is also the token
\* a webhook drew; rows: the tokens still to be marked redeemed; add: the
\* credits to add; cur: the credits sb_add_credits read; code, out: the
\* response (out: the token a webhook returns, the credits a redeem added).
NoReq ==
    [op |-> "none", pc |-> "new", order |-> 0, email |-> 0, user |-> 0,
     token |-> 0, rows |-> << >>, add |-> 0, cur |-> 0, code |-> 0, out |-> 0]

Init ==
    /\ store = [j \in Jobs |-> EmptyRecord]
    /\ queue = << >>
    /\ tasks = {}
    /\ fs = [j \in Jobs |-> NoFiles]
    /\ nextJid = 1
    /\ up = [j \in Jobs |-> "new"]
    /\ form = [j \in Jobs |-> NoStr]
    /\ ukv = [j \in Jobs |-> << >>]
    /\ pc = [p \in Procs |-> "idle"]
    /\ jid = [p \in Procs |-> 0]
    /\ vid = [p \in Procs |-> NoPath]
    /\ lang = [p \in Procs |-> NoStr]
    /\ audio_path = [p \in Procs |-> "none"]
    /\ text = [p \in Procs |-> NoText]
    /\ exc = [p \in Procs |-> << >>]
    /\ kv = [p \in Procs |-> << >>]
    /\ dequeued = [j \in Jobs |-> << >>]
    /\ calls = [j \in Jobs |-> << >>]
    /\ writes = [j \in Jobs |-> << >>]
    /\ credit_claims = << >>
    /\ users = [u \in Users |-> 0]
    /\ nextToken = 1
    /\ req = [r \in Reqs |-> NoReq]
    /\ granted = [t \in Tokens |-> 0]

\* ------------------------------------------------------------ redis helpers
\* r.hset(key(jid), field, value)
HsetStore(j, f, v) == [store EXCEPT ![j] = [@ EXCEPT ![f] = v]]

\* hgetall(key(jid)) of a hash with no field set is {}
Exists(j) == store[j] # EmptyRecord

\* a pop that reads the right end and leaves it on the list
PeekRight(q) == q

\* brpop takes the right end of the list; lpush adds at the left end
PopRight(q) == SubSeq(q, 1, Len(q) - 1)
PushLeft(q, j) == <<j>> \o q

\* append_log: cur = (cur + "\n" + line)[-4000:].  The lines one job execution
\* appends stay under 4000 characters in total (the longest, the ladder
\* diagnostic, holds three stderr tails of at most 1200), so the slice keeps
\* all of them.
AppendLog(j, line) == HsetStore(j, "log", Append(store[j].log, line))

\* ------------------------------------------------- the set_status arguments
\* set_status(jid, **kv) writes its keyword arguments one HSET at a time, in
\* the order they are given.
UploadKV(j, language) ==
    << <<"status", "queued">>, <<"progress", 0>>, <<"video", j>>,
       <<"language", language>>, <<"createdAt", 1>> >>

StageKV(status, progress) == << <<"status", status>>, <<"progress", progress>> >>

\* stage updates with a wrong checkpoint or a wrong status
WhisperKVLow == StageKV("whisper", 10)
VoKVBackward == StageKV("whisper", 85)

DownloadingKV == StageKV("downloading", 5)
\* an extraction entered without a status update
AudioExtractKVNone == << >>
AudioExtractKV == StageKV("audio_extract", 15)
WhisperKV == StageKV("whisper", 40)
RewriteKV == StageKV("rewrite", 70)
VoKV == StageKV("vo", 85)

\* a done update without the result reference
DoneKVNoResult(j) == << <<"status", "done">>, <<"progress", 100>> >>
DoneKV(j) == << <<"status", "done">>, <<"progress", 100>>, <<"result", j>> >>

\* error updates with a status outside the vocabulary, or with the message
\* written before the status
ErrorKVFailed(e) == << <<"status", "failed">>, <<"error", e>> >>
ErrorKVErrorFirst(e) == << <<"error", e>>, <<"status", "error">> >>

\* an error update that writes the message and leaves the status as it was
ErrorKVNoStatus(e) == << <<"error", e>> >>
ErrorKV(e) == << <<"status", "error">>, <<"error", e>> >>

\* ------------------------------------------------------------------ intake
\* upload, lines 178-192: a fresh job id, the source written to UP/<jid>.mp4,
\* then set_status entered.  Whether the source holds an audio stream, and
\* whether the file is still there when the job is processed (ROOT_WORKDIR
\* defaults to a directory under /tmp), are the environment's choice.
Upload(j) ==
    /\ j = nextJid
    /\ up[j] = "new"
    /\ \E language \in Languages, present \in BOOLEAN, audio \in BOOLEAN :
          /\ fs' = [fs EXCEPT ![j] = [@ EXCEPT !.video = present, !.hasAudio = audio]]
          /\ form' = [form EXCEPT ![j] = language]
          /\ ukv' = [ukv EXCEPT ![j] = UploadKV(j, language)]
    /\ up' = [up EXCEPT ![j] = "created"]
    /\ nextJid' = nextJid + 1
    /\ UNCHANGED <<store, queue, tasks, procVars, payVars, dequeued, calls, writes>>

\* one HSET of upload's set_status
UploadHset(j) ==
    /\ Len(ukv[j]) > 0
    /\ store' = HsetStore(j, Head(ukv[j])[1], Head(ukv[j])[2])
    /\ ukv' = [ukv EXCEPT ![j] = Tail(@)]
    /\ UNCHANGED <<queue, tasks, fs, nextJid, up, form, procVars, payVars, dequeued, calls, writes>>

\* a handoff that does not wait for set_status
SetStatusEntered(j) == TRUE

\* upload hands the job over on the line after set_status has returned
SetStatusReturned(j) == Len(ukv[j]) = 0

\* upload, line 195: background_tasks.add_task(process_job, jid, str(dest), language)
AddTask(j) ==
    /\ up[j] = "created"
    /\ SetStatusReturned(j)
    /\ tasks' = tasks \cup {[jid |-> j, video |-> j, language |-> form[j]]}
    /\ up' = [up EXCEPT ![j] = "handed"]
    /\ UNCHANGED <<store, queue, fs, nextJid, form, ukv, procVars, payVars, dequeued, calls, writes>>

\* the intake of the queue deployment: the job id pushed on queue:shorts
\* once its record has been created
Enqueue(j) ==
    /\ up[j] = "created"
    /\ SetStatusReturned(j)
    /\ queue' = PushLeft(queue, j)
    /\ up' = [up EXCEPT ![j] = "handed"]
    /\ UNCHANGED <<store, tasks, fs, nextJid, form, ukv, procVars, payVars, dequeued, calls, writes>>

\* ------------------------------------------------- the two pipeline drivers
\* a check that finds every path
PathAlwaysExists(v) == TRUE
\* Path(v).exists(): Path("") is the working directory, which exists
VidExists(v) == IF v = NoPath THEN TRUE ELSE fs[v].video

\* a probe that reports an audio stream for every file that exists
FfprobeAnyFile(v) == IF v = NoPath THEN FALSE ELSE fs[v].video

\* ffprobe prints a codec name only for a file with an audio stream
FfprobeHasAudio(v) == IF v = NoPath THEN FALSE ELSE fs[v].video /\ fs[v].hasAudio

\* the three ladder outputs: base.m4a, base_aac.m4a, base.wav
AudioExists(v, a) ==
    IF v = NoPath \/ a = "none" THEN FALSE
    ELSE IF a = "copy" THEN fs[v].copy
    ELSE IF a = "aac" THEN fs[v].aac
    ELSE fs[v].wav

PyBool(b) == IF b THEN "True" ELSE "False"

\* an exception that no except clause catches: it leaves the loop and the
\* process ends
RaiseEscapes(p, e) ==
    /\ exc' = [exc EXCEPT ![p] = e]
    /\ kv' = kv
    /\ pc' = [pc EXCEPT ![p] = "crashed"]

\* raise inside the try block: control goes to the except clause, whose first
\* statement is set_status(jid, status="error", error=str(e))
Raise(p, e) ==
    /\ exc' = [exc EXCEPT ![p] = e]
    /\ kv' = [kv EXCEPT ![p] = ErrorKV(e)]
    /\ pc' = [pc EXCEPT ![p] = "log_err"]

\* worker.run, line 128: item = r.brpop("queue:shorts", timeout=5); a timeout
\* with the list empty changes nothing and the loop polls again
Brpop(p) ==
    /\ p \in Workers
    /\ pc[p] = "idle"
    /\ Len(queue) > 0
    /\ jid' = [jid EXCEPT ![p] = queue[Len(queue)]]
    /\ queue' = PopRight(queue)
    /\ dequeued' = [dequeued EXCEPT ![queue[Len(queue)]] = Append(@, p)]
    /\ pc' = [pc EXCEPT ![p] = "hgetall"]
    /\ UNCHANGED <<store, tasks, fs, intakeVars, payVars, vid, lang, audio_path, text, exc, kv, calls, writes>>

\* worker.run, lines 133-139: d = r.hgetall(key(jid)), the locals, and the
\* first set_status of the try block entered
Hgetall(p) ==
    /\ pc[p] = "hgetall"
    /\ vid' = [vid EXCEPT ![p] = store[jid[p]].video]
    /\ lang' = [lang EXCEPT ![p] =
                  IF store[jid[p]].language = NoStr THEN "ko" ELSE store[jid[p]].language]
    /\ kv' = [kv EXCEPT ![p] = DownloadingKV]
    /\ pc' = [pc EXCEPT ![p] = "check_vid"]
    /\ UNCHANGED <<store, queue, tasks, fs, intakeVars, payVars, jid, audio_path, text, exc, dequeued, calls, writes>>

\* a process_job that starts without the downloading update
ProcessJobNoDownloading(p) ==
    /\ p \in Threads
    /\ pc[p] = "idle"
    /\ \E t \in tasks :
          /\ tasks' = tasks \ {t}
          /\ jid' = [jid EXCEPT ![p] = t.jid]
          /\ vid' = [vid EXCEPT ![p] = t.video]
          /\ lang' = [lang EXCEPT ![p] = t.language]
    /\ kv' = [kv EXCEPT ![p] = << >>]
    /\ pc' = [pc EXCEPT ![p] = "check_vid"]
    /\ UNCHANGED <<store, queue, fs, intakeVars, payVars, audio_path, text, exc, dequeued, calls, writes>>

\* a thread of the pool starts process_job(jid, video_path, language):
\* main.py, lines 125-128
ProcessJob(p) ==
    /\ p \in Threads
    /\ pc[p] = "idle"
    /\ \E t \in tasks :
          /\ tasks' = tasks \ {t}
          /\ jid' = [jid EXCEPT ![p] = t.jid]
          /\ vid' = [vid EXCEPT ![p] = t.video]
          /\ lang' = [lang EXCEPT ![p] = t.language]
    /\ kv' = [kv EXCEPT ![p] = DownloadingKV]
    /\ pc' = [pc EXCEPT ![p] = "check_vid"]
    /\ UNCHANGED <<store, queue, fs, intakeVars, payVars, audio_path, text, exc, dequeued, calls, writes>>

\* one HSET of the set_status the driver is in
Hset(p) ==
    /\ Len(kv[p]) > 0
    /\ store' = HsetStore(jid[p], Head(kv[p])[1], Head(kv[p])[2])
    /\ kv' = [kv EXCEPT ![p] = Tail(@)]
    /\ writes' = [writes EXCEPT ![jid[p]] =
                     IF Head(kv[p])[1] \in {"status", "progress"}
                        THEN Append(@, Head(kv[p])) ELSE @]
    /\ UNCHANGED <<queue, tasks, fs, intakeVars, payVars, pc, jid, vid, lang, audio_path, text, exc, dequeued, calls>>

\* the message of the missing-file error differs between the two drivers
MissingMsg(p) ==
    IF p \in Workers THEN <<"uploaded file missing">>
    ELSE <<"uploaded file does not exist">>

\* lines 140-141 (worker.py), 129-130 (main.py)
CheckVid(p) ==
    /\ pc[p] = "check_vid"
    /\ Len(kv[p]) = 0
    /\ IF VidExists(vid[p])
          THEN /\ pc' = [pc EXCEPT ![p] = "duration"]
               /\ UNCHANGED <<exc, kv>>
          ELSE Raise(p, MissingMsg(p))
    /\ UNCHANGED <<store, queue, tasks, fs, intakeVars, payVars, jid, vid, lang, audio_path, text, dequeued, calls, writes>>

\* ffprobe_duration(p): the duration ffprobe prints for a media file, 0.0 for
\* anything else (the working directory, Path(""))
Duration(v) == IF v = NoPath THEN 0 ELSE 10

\* lines 143-146: dur = ffprobe_duration(vid); set_status(jid, durationSec=dur)
\* and set_status(jid, status="audio_extract", progress=15) follow one another
\* with nothing in between, so their HSETs form one run
FfprobeDuration(p) ==
    /\ pc[p] = "duration"
    /\ kv' = [kv EXCEPT ![p] = << <<"durationSec", Duration(vid[p])>> >> \o AudioExtractKV]
    /\ pc' = [pc EXCEPT ![p] = "log_probe"]
    /\ calls' = [calls EXCEPT ![jid[p]] = Append(@, <<"ffprobe_duration", "ok">>)]
    /\ UNCHANGED <<store, queue, tasks, fs, intakeVars, payVars, jid, vid, lang, audio_path, text, exc, dequeued, writes>>

\* line 147: append_log(jid, f"ffprobe audio? {ffprobe_has_audio(vid)}")
LogProbe(p) ==
    /\ pc[p] = "log_probe"
    /\ Len(kv[p]) = 0
    /\ store' = AppendLog(jid[p], <<"ffprobe audio?", PyBool(FfprobeHasAudio(vid[p]))>>)
    /\ pc' = [pc EXCEPT ![p] = "probe"]
    /\ UNCHANGED <<queue, tasks, fs, intakeVars, payVars, jid, vid, lang, audio_path, text, exc, kv, dequeued, writes>>
    /\ calls' = [calls EXCEPT ![jid[p]] = Append(@, <<"ffprobe_has_audio", "ok">>)]

\* ------------------------------------------- extract_audio_with_fallback
\* line 76-77: no audio stream, no ladder
Probe(p) ==
    /\ pc[p] = "probe"
    /\ IF FfprobeHasAudio(vid[p])
          THEN /\ pc' = [pc EXCEPT ![p] = "tier1"]
               /\ UNCHANGED <<exc, kv>>
          ELSE Raise(p, <<"no audio track">>)
    /\ UNCHANGED <<store, queue, tasks, fs, intakeVars, payVars, jid, vid, lang, audio_path, text, dequeued, writes>>
    /\ calls' = [calls EXCEPT ![jid[p]] = Append(@, <<"ffprobe_has_audio", "ok">>)]

\* a diagnostic that keeps the last tier's stderr tail only
LadderMsgLastOnly == <<"ffmpeg extract failed", "[wav ]e3">>

\* the diagnostic of the exhausted ladder: the three stderr tails
LadderMsg == <<"ffmpeg extract failed", "[copy]e1", "[aac ]e2", "[wav ]e3">>

\* One tier: run_ffmpeg returns whether the exit code was 0, and the output
\* file exists afterwards or not; the code tests both, and either can happen
\* with either (a failed ffmpeg run can leave the file it had opened).  The
\* tier's output is returned when both hold; otherwise the next tier runs,
\* and after the third the ladder raises.
Tier(p, at, out, next) ==
    /\ pc[p] = at
    /\ \E ok \in BOOLEAN, made \in BOOLEAN :
          /\ fs' = [fs EXCEPT ![vid[p]] = [@ EXCEPT ![out] = made]]
          /\ calls' = [calls EXCEPT ![jid[p]] =
                          Append(@, IF ok /\ made THEN <<out, "ok">> ELSE <<out, "failed">>)]
          /\ IF ok /\ made
                THEN /\ audio_path' = [audio_path EXCEPT ![p] = out]
                     /\ pc' = [pc EXCEPT ![p] = "log_audio"]
                     /\ UNCHANGED <<exc, kv>>
                ELSE IF next = "raise"
                THEN /\ Raise(p, LadderMsg)
                     /\ UNCHANGED audio_path
                ELSE /\ pc' = [pc EXCEPT ![p] = next]
                     /\ UNCHANGED <<audio_path, exc, kv>>
    /\ UNCHANGED <<store, queue, tasks, intakeVars, payVars, jid, vid, lang, text, dequeued, writes>>

\* a ladder that goes from the first tier straight to the third
Tier1SkipsAac(p) == Tier(p, "tier1", "copy", "tier3")
\* line 83-84: -c:a copy into base.m4a
Tier1(p) == Tier(p, "tier1", "copy", "tier2")
\* line 86-87: aac 192k 44100 Hz stereo into base_aac.m4a
Tier2(p) == Tier(p, "tier2", "aac", "tier3")
\* line 89-92: pcm_s16le 16000 Hz mono into base.wav
Tier3(p) == Tier(p, "tier3", "wav", "raise")

\* audio_path.suffix
Suffix(a) == IF a = "wav" THEN ".wav" ELSE ".m4a"

\* the two drivers word this log line differently
AudioLine(p, a) ==
    IF p \in Workers THEN <<"audio:", Suffix(a)>> ELSE <<"audio =>", Suffix(a)>>

\* lines 149-151: append_log(jid, f"audio: {audio_path.suffix}"), then
\* set_status(jid, status="whisper", progress=40) entered
LogAudio(p) ==
    /\ pc[p] = "log_audio"
    /\ store' = AppendLog(jid[p], AudioLine(p, audio_path[p]))
    /\ kv' = [kv EXCEPT ![p] = WhisperKV]
    /\ pc' = [pc EXCEPT ![p] = "whisper"]
    /\ UNCHANGED <<queue, tasks, fs, intakeVars, payVars, jid, vid, lang, audio_path, text, exc, dequeued, calls, writes>>

\* ----------------------------------------------------- the remote stages
\* whisper_srt: the remote call raises or returns the transcript
WhisperOutcomes == {"raise", "transcript"}

\* rewrite_srt: the remote call raises, or returns a message whose content is
\* empty (None or "") or the paraphrase; c.choices[0].message.content or srt_text
RewriteOutcomes == {"raise", "", "paraphrase"}
RewriteResult(content, srt_text) == IF content = "" THEN srt_text ELSE content

\* make_vo_text: the remote call raises, or returns a message whose content is
\* empty or the narration; (c.choices[0].message.content or "").strip()
VoOutcomes == {"raise", "", "narration"}

\* lines 152-155: srt_text = whisper_srt(audio_path, lang), the transcript
\* written to OUT/<jid>.srt, then set_status(jid, status="rewrite",
\* progress=70) entered
WhisperSrt(p) ==
    /\ pc[p] = "whisper"
    /\ Len(kv[p]) = 0
    /\ \E o \in WhisperOutcomes :
          /\ calls' = [calls EXCEPT ![jid[p]] =
                          IF o = "raise" THEN Append(@, <<"whisper_srt", "raised">>)
                          ELSE @ \o <<<<"whisper_srt", "ok">>, <<"returned", o>>, <<"write_text", "srt">>>>]
          /\ IF o = "raise"
             THEN /\ Raise(p, <<"transcription failed">>)
                  /\ UNCHANGED <<fs, text>>
             ELSE /\ text' = [text EXCEPT ![p].srt = o]
                  /\ fs' = [fs EXCEPT ![jid[p]].srt = o]
                  /\ kv' = [kv EXCEPT ![p] = RewriteKV]
                  /\ pc' = [pc EXCEPT ![p] = "rewrite"]
                  /\ UNCHANGED exc
    /\ UNCHANGED <<store, queue, tasks, intakeVars, payVars, jid, vid, lang, audio_path, dequeued, writes>>

\* a rewrite stage that degrades: when the remote call raises, the original
\* transcript stands in for the rewritten one and the run goes on
RewriteSrtDegrades(p) ==
    /\ pc[p] = "rewrite"
    /\ Len(kv[p]) = 0
    /\ \E o \in RewriteOutcomes :
          /\ calls' = [calls EXCEPT ![jid[p]] =
                          IF o = "raise" THEN Append(@, <<"rewrite_srt", "raised">>)
                          ELSE @ \o <<<<"rewrite_srt", "ok">>, <<"returned", o>>, <<"write_text", "rewritten">>>>]
          /\ text' = [text EXCEPT ![p].rew =
                         IF o = "raise" THEN text[p].srt ELSE RewriteResult(o, text[p].srt)]
          /\ fs' = [fs EXCEPT ![jid[p]].rewritten =
                       IF o = "raise" THEN text[p].srt ELSE RewriteResult(o, text[p].srt)]
          /\ kv' = [kv EXCEPT ![p] = VoKV]
          /\ pc' = [pc EXCEPT ![p] = "vo"]
          /\ UNCHANGED exc
    /\ UNCHANGED <<store, queue, tasks, intakeVars, payVars, jid, vid, lang, audio_path, dequeued, writes>>

\* lines 156-159: rew = rewrite_srt(srt_text), written to
\* OUT/<jid>_rewritten.srt, then set_status(jid, status="vo", progress=85)
RewriteSrt(p) ==
    /\ pc[p] = "rewrite"
    /\ Len(kv[p]) = 0
    /\ \E o \in RewriteOutcomes :
          /\ calls' = [calls EXCEPT ![jid[p]] =
                          IF o = "raise" THEN Append(@, <<"rewrite_srt", "raised">>)
                          ELSE @ \o <<<<"rewrite_srt", "ok">>, <<"returned", o>>, <<"write_text", "rewritten">>>>]
          /\ IF o = "raise"
             THEN /\ Raise(p, <<"rewrite failed">>)
                  /\ UNCHANGED <<fs, text>>
             ELSE /\ text' = [text EXCEPT ![p].rew = RewriteResult(o, text[p].srt)]
                  /\ fs' = [fs EXCEPT ![jid[p]].rewritten = RewriteResult(o, text[p].srt)]
                  /\ kv' = [kv EXCEPT ![p] = VoKV]
                  /\ pc' = [pc EXCEPT ![p] = "vo"]
                  /\ UNCHANGED exc
    /\ UNCHANGED <<store, queue, tasks, intakeVars, payVars, jid, vid, lang, audio_path, dequeued, writes>>

\* lines 160-164: vo = make_vo_text(rew), written to OUT/<jid>_vo.txt, then
\* set_status(jid, status="done", progress=100, result=...) entered
MakeVoText(p) ==
    /\ pc[p] = "vo"
    /\ Len(kv[p]) = 0
    /\ \E o \in VoOutcomes :
          /\ calls' = [calls EXCEPT ![jid[p]] =
                          IF o = "raise" THEN Append(@, <<"make_vo_text", "raised">>)
                          ELSE @ \o <<<<"make_vo_text", "ok">>, <<"returned", o>>, <<"write_text", "vo">>>>]
          /\ IF o = "raise"
             THEN /\ Raise(p, <<"voice-over failed">>)
                  /\ UNCHANGED fs
             ELSE /\ fs' = [fs EXCEPT ![jid[p]].vo = o]
                  /\ kv' = [kv EXCEPT ![p] = DoneKV(jid[p])]
                  /\ pc' = [pc EXCEPT ![p] = "log_done"]
                  /\ UNCHANGED exc
    /\ UNCHANGED <<store, queue, tasks, intakeVars, payVars, jid, vid, lang, audio_path, text, dequeued, writes>>

\* an append_log that raises inside the try block, after done was written
LogDoneRaises(p) ==
    /\ pc[p] = "log_done"
    /\ Len(kv[p]) = 0
    /\ Raise(p, <<"log failed">>)
    /\ UNCHANGED <<store, queue, tasks, fs, intakeVars, payVars, jid, vid, lang, audio_path, text, dequeued, calls, writes>>

\* line 165: append_log(jid, "done"); the try block ends and finally runs
LogDone(p) ==
    /\ pc[p] = "log_done"
    /\ Len(kv[p]) = 0
    /\ store' = AppendLog(jid[p], <<"done">>)
    /\ pc' = [pc EXCEPT ![p] = "rm_audio"]
    /\ UNCHANGED <<queue, tasks, fs, intakeVars, payVars, jid, vid, lang, audio_path, text, exc, kv, dequeued, calls, writes>>

\* an except clause that puts the failed id back on the queue
LogErrRequeue(p) ==
    /\ pc[p] = "log_err"
    /\ Len(kv[p]) = 0
    /\ store' = AppendLog(jid[p], <<"error">> \o exc[p])
    /\ queue' = PushLeft(queue, jid[p])
    /\ pc' = [pc EXCEPT ![p] = "rm_audio"]
    /\ UNCHANGED <<tasks, fs, intakeVars, payVars, jid, vid, lang, audio_path, text, exc, kv, dequeued, calls, writes>>

\* line 170: append_log(jid, f"error {e}"); the except clause ends and
\* finally runs
LogErr(p) ==
    /\ pc[p] = "log_err"
    /\ Len(kv[p]) = 0
    /\ store' = AppendLog(jid[p], <<"error">> \o exc[p])
    /\ pc' = [pc EXCEPT ![p] = "rm_audio"]
    /\ UNCHANGED <<queue, tasks, fs, intakeVars, payVars, jid, vid, lang, audio_path, text, exc, kv, dequeued, calls, writes>>

\* ------------------------------------------------------------ the cleanup
\* the iteration is over: the worker polls the queue again, the thread is
\* free (the locals are assigned anew before they are read again)
Finish(p) ==
    /\ pc' = [pc EXCEPT ![p] = "idle"]
    /\ jid' = [jid EXCEPT ![p] = 0]
    /\ vid' = [vid EXCEPT ![p] = NoPath]
    /\ lang' = [lang EXCEPT ![p] = NoStr]
    /\ audio_path' = [audio_path EXCEPT ![p] = "none"]
    /\ text' = [text EXCEPT ![p] = NoText]
    /\ exc' = [exc EXCEPT ![p] = << >>]

\* line 176: if audio_path and audio_path.exists(): audio_path.unlink(...).
\* unlink removes the file or raises (missing_ok covers the missing file
\* only); an exception leaves the try of the finally block, past line 177.
RmAudio(p) ==
    /\ pc[p] = "rm_audio"
    /\ IF AudioExists(vid[p], audio_path[p])
          THEN \/ /\ fs' = [fs EXCEPT ![vid[p]] = [@ EXCEPT ![audio_path[p]] = FALSE]]
                  /\ calls' = [calls EXCEPT ![jid[p]] = Append(@, <<"unlink_audio", "ok">>)]
                  /\ pc' = [pc EXCEPT ![p] = "rm_vid"]
                  /\ UNCHANGED <<jid, vid, lang, audio_path, text, exc>>
               \/ /\ calls' = [calls EXCEPT ![jid[p]] = Append(@, <<"unlink_audio", "raised">>)]
                  /\ Finish(p)
                  /\ UNCHANGED fs
          ELSE /\ pc' = [pc EXCEPT ![p] = "rm_vid"]
               /\ UNCHANGED <<fs, jid, vid, lang, audio_path, text, exc, calls>>
    /\ UNCHANGED <<store, queue, tasks, intakeVars, payVars, kv, dequeued, writes>>

\* a finally block without its try/except: a deletion that raises leaves the
\* while loop and the worker ends
RmVidUnguarded(p) ==
    /\ pc[p] = "rm_vid"
    /\ IF VidExists(vid[p])
          THEN \/ /\ vid[p] # NoPath
                  /\ fs' = [fs EXCEPT ![vid[p]].video = FALSE]
                  /\ calls' = [calls EXCEPT ![jid[p]] = Append(@, <<"unlink_vid", "ok">>)]
                  /\ Finish(p)
               \/ /\ calls' = [calls EXCEPT ![jid[p]] = Append(@, <<"unlink_vid", "raised">>)]
                  /\ pc' = [pc EXCEPT ![p] = "crashed"]
                  /\ UNCHANGED <<fs, jid, vid, lang, audio_path, text, exc>>
          ELSE UNCHANGED <<fs, calls>> /\ Finish(p)
    /\ UNCHANGED <<store, queue, tasks, intakeVars, payVars, kv, dequeued, writes>>

\* line 177: if vid.exists(): vid.unlink(missing_ok=True).  The working
\* directory (Path("")) exists and unlink of a directory raises.
RmVid(p) ==
    /\ pc[p] = "rm_vid"
    /\ IF VidExists(vid[p])
          THEN \/ /\ vid[p] # NoPath
                  /\ fs' = [fs EXCEPT ![vid[p]].video = FALSE]
                  /\ calls' = [calls EXCEPT ![jid[p]] = Append(@, <<"unlink_vid", "ok">>)]
               \/ /\ calls' = [calls EXCEPT ![jid[p]] = Append(@, <<"unlink_vid", "raised">>)]
                  /\ UNCHANGED fs
          ELSE UNCHANGED <<fs, calls>>
    /\ Finish(p)
    /\ UNCHANGED <<store, queue, tasks, intakeVars, payVars, kv, dequeued, writes>>

\* ----------------------------------------------------------- the download
\* main.py download, lines 204-215: the path of the artifact is built from
\* the job id and the kind; an unknown kind or a path that does not exist is
\* answered 404 "file not ready", an existing file is served.  The handler
\* reads the file system only, never the job record.
Kinds == {"srt", "rewritten", "vo", "mp4"}
ArtifactAt(j, kind) ==
    IF kind = "srt" THEN fs[j].srt
    ELSE IF kind = "rewritten" THEN fs[j].rewritten
    ELSE IF kind = "vo" THEN fs[j].vo
    ELSE NoFile
Download(j, kind) ==
    IF ArtifactAt(j, kind) = NoFile
       THEN [code |-> 404, body |-> "file not ready"]
       ELSE [code |-> 200, body |-> ArtifactAt(j, kind)]

\* --------------------------------------------------------- the status poll
\* main.py job_status, lines 198-202: d = r.hgetall(k(jid)); 404 "not found"
\* for a hash without fields, the hash as it is at that moment otherwise
JobStatus(j) ==
    IF Exists(j) THEN [code |-> 200, body |-> store[j]]
    ELSE [code |-> 404, body |-> EmptyRecord]

\* ------------------------------------------------------ the payment claims
pipeVars == <<store, queue, tasks, fs, intakeVars, procVars, dequeued, calls, writes>>

\* PRODUCT_CREDITS["MALFIT-PT-5K"], AMOUNT_CREDITS[5000]: the credits of the
\* orders of the model
CreditsOf5K == 50

\* the handler returns or raises HTTPException: the request is over
Respond(r, code, out) ==
    req' = [req EXCEPT ![r] = [@ EXCEPT !.pc = "done", !.code = code, !.out = out]]

\* the indices of the rows of credit_claims a filter selects
ClaimsOfOrder(o) == {i \in DOMAIN credit_claims : credit_claims[i].order_id = o}
ClaimsOfToken(t) == {i \in DOMAIN credit_claims : credit_claims[i].token = t}
IsUnredeemedOf(e, row) == row.email = e /\ ~row.redeemed

\* woocommerce_webhook, lines 136-164: the signature, the order status and
\* the credits mapping are checked before any request to Supabase; a delivery
\* that fails them is answered at once
WoocommerceWebhook(r) ==
    /\ req[r].pc = "new"
    /\ \E o \in Orders, e \in Users, valid \in BOOLEAN :
          req' = [req EXCEPT ![r] =
                     [@ EXCEPT !.op = "woocommerce_webhook", !.order = o, !.email = e,
                               !.pc = IF valid THEN "wh_select" ELSE "done",
                               !.code = IF valid THEN 0 ELSE 401]]
    /\ UNCHANGED <<credit_claims, users, nextToken, granted, pipeVars>>

\* wordpress_payment_webhook, lines 104-134
WordpressPaymentWebhook(r) ==
    /\ req[r].pc = "new"
    /\ \E o \in Orders, e \in Users, valid \in BOOLEAN :
          req' = [req EXCEPT ![r] =
                     [@ EXCEPT !.op = "wordpress_payment_webhook", !.order = o, !.email = e,
                               !.pc = IF valid THEN "wh_select" ELSE "done",
                               !.code = IF valid THEN 0 ELSE 401]]
    /\ UNCHANGED <<credit_claims, users, nextToken, granted, pipeVars>>

\* payments_claim.py 167-171, app_wordpress_webhook.py 137-149:
\* exists = await sb_select_one("credit_claims", {"order_id": order_id});
\* a row found is answered with its token (rows[0], the request names no
\* order); otherwise token = new_claim_token()
WhSelect(r) ==
    /\ req[r].pc = "wh_select"
    /\ \/ Respond(r, 500, 0) /\ UNCHANGED nextToken
       \/ /\ ClaimsOfOrder(req[r].order) # {}
          /\ \E i \in ClaimsOfOrder(req[r].order) : Respond(r, 200, credit_claims[i].token)
          /\ UNCHANGED nextToken
       \/ /\ ClaimsOfOrder(req[r].order) = {}
          /\ req' = [req EXCEPT ![r] = [@ EXCEPT !.token = nextToken, !.pc = "wh_insert"]]
          /\ nextToken' = nextToken + 1
    /\ UNCHANGED <<credit_claims, users, granted, pipeVars>>

\* payments_claim.py 172-179, app_wordpress_webhook.py 150-160:
\* await sb_insert("credit_claims", {...})
WhInsert(r) ==
    /\ req[r].pc = "wh_insert"
    /\ \/ Respond(r, 500, 0) /\ UNCHANGED credit_claims
       \/ /\ credit_claims' = Append(credit_claims,
                [token |-> req[r].token, order_id |-> req[r].order, email |-> req[r].email,
                 credits |-> CreditsOf5K, redeemed |-> FALSE])
          /\ req' = [req EXCEPT ![r].pc = "wh_mail"]
    /\ UNCHANGED <<users, nextToken, granted, pipeVars>>

\* payments_claim.py 181-194: send_email is not guarded, a failure of it ends
\* the request with an error; app_wordpress_webhook.py 163-178: it is inside
\* try/except, and the token is returned whatever happens
WhMail(r) ==
    /\ req[r].pc = "wh_mail"
    /\ \E sent \in BOOLEAN :
          IF sent \/ req[r].op = "wordpress_payment_webhook"
             THEN Respond(r, 200, req[r].token)
             ELSE Respond(r, 500, 0)
    /\ UNCHANGED <<credit_claims, users, nextToken, granted, pipeVars>>

\* redeem_token, lines 197-206: the user id and the token of the body
RedeemToken(r) ==
    /\ req[r].pc = "new"
    /\ \E u \in Users, t \in Tokens :
          req' = [req EXCEPT ![r] =
                     [@ EXCEPT !.op = "redeem_token", !.user = u, !.token = t,
                               !.pc = "rt_select"]]
    /\ UNCHANGED <<credit_claims, users, nextToken, granted, pipeVars>>

\* redeem_token, lines 208-218: claim = await sb_select_one("credit_claims",
\* {"token": token}); 404 without a row, 400 for a redeemed row and for a
\* row older than 90 days; add = int(claim["credits"])
RtSelect(r) ==
    /\ req[r].pc = "rt_select"
    /\ \/ Respond(r, 500, 0)
       \/ ClaimsOfToken(req[r].token) = {} /\ Respond(r, 404, 0)
       \/ \E i \in ClaimsOfToken(req[r].token) :
             IF credit_claims[i].redeemed
                THEN Respond(r, 400, 0)
                ELSE \E expired \in BOOLEAN :
                        IF expired
                           THEN Respond(r, 400, 0)
                           ELSE req' = [req EXCEPT ![r] =
                                           [@ EXCEPT !.add = credit_claims[i].credits,
                                                     !.rows = <<req[r].token>>,
                                                     !.pc = "add_select"]]
    /\ UNCHANGED <<credit_claims, users, nextToken, granted, pipeVars>>

\* redeem_my_claims, line 254: the logged-in user
RedeemMyClaims(r) ==
    /\ req[r].pc = "new"
    /\ \E u \in Users :
          req' = [req EXCEPT ![r] =
                     [@ EXCEPT !.op = "redeem_my_claims", !.user = u, !.email = u,
                               !.pc = "mc_select"]]
    /\ UNCHANGED <<credit_claims, users, nextToken, granted, pipeVars>>

RECURSIVE SumCredits(_)
SumCredits(rows) ==
    IF rows = << >> THEN 0 ELSE Head(rows).credits + SumCredits(Tail(rows))
RECURSIVE TokensOf(_)
TokensOf(rows) ==
    IF rows = << >> THEN << >> ELSE <<Head(rows).token>> \o TokensOf(Tail(rows))

\* redeem_my_claims, lines 256-264: rows = await sb_select("credit_claims",
\* {"email": user["email"], "redeemed": False}); nothing to do without rows;
\* total_add = sum(int(r["credits"]) for r in rows)
McSelect(r) ==
    /\ req[r].pc = "mc_select"
    /\ \/ Respond(r, 500, 0)
       \/ LET rows == SelectSeq(credit_claims, LAMBDA row : IsUnredeemedOf(req[r].email, row))
          IN  IF rows = << >>
                 THEN Respond(r, 200, 0)
                 ELSE req' = [req EXCEPT ![r] =
                                 [@ EXCEPT !.add = SumCredits(rows), !.rows = TokensOf(rows),
                                           !.pc = "add_select"]]
    /\ UNCHANGED <<credit_claims, users, nextToken, granted, pipeVars>>

\* sb_add_credits, lines 84-87: user = await sb_select_one("users", ...);
\* new_credits = int(user.get("credits", 0)) + int(add)
AddSelect(r) ==
    /\ req[r].pc = "add_select"
    /\ \/ Respond(r, 500, 0)
       \/ req' = [req EXCEPT ![r] = [@ EXCEPT !.cur = users[req[r].user], !.pc = "add_update"]]
    /\ UNCHANGED <<credit_claims, users, nextToken, granted, pipeVars>>

RECURSIVE Grant(_, _)
Grant(g, rows) ==
    IF rows = << >> THEN g
    ELSE Grant([g EXCEPT ![Head(rows)] = @ + 1], Tail(rows))

\* sb_add_credits, line 88: await sb_update("users", {"id": user_id},
\* {"credits": new_credits}); the credits of the request's tokens are now in
\* the user's balance
AddUpdate(r) ==
    /\ req[r].pc = "add_update"
    /\ \/ Respond(r, 500, 0) /\ UNCHANGED <<users, granted>>
       \/ /\ users' = [users EXCEPT ![req[r].user] = req[r].cur + req[r].add]
          /\ granted' = Grant(granted, req[r].rows)
          /\ req' = [req EXCEPT ![r].pc = "mark"]
    /\ UNCHANGED <<credit_claims, nextToken, pipeVars>>

\* sb_update("credit_claims", {"token": t}, {"redeemed": True, ...})
MarkRedeemed(t) ==
    [i \in DOMAIN credit_claims |->
        IF credit_claims[i].token = t
           THEN [credit_claims[i] EXCEPT !.redeemed = TRUE]
           ELSE credit_claims[i]]

\* redeem_token, lines 221-227, and redeem_my_claims, lines 267-274: one
\* await sb_update per token, then the handler returns what it added
Mark(r) ==
    /\ req[r].pc = "mark"
    /\ \/ Respond(r, 500, 0) /\ UNCHANGED credit_claims
       \/ /\ credit_claims' = MarkRedeemed(Head(req[r].rows))
          /\ IF Len(req[r].rows) = 1
                THEN req' = [req EXCEPT ![r] =
                                [@ EXCEPT !.rows = << >>, !.pc = "done", !.code = 200,
                                          !.out = req[r].add]]
                ELSE req' = [req EXCEPT ![r].rows = Tail(@)]
    /\ UNCHANGED <<users, nextToken, granted, pipeVars>>

\* ------------------------------------------------------- the specification
\* the steps the two drivers share, from the try block to the end of finally
Pipeline(p) ==
    \/ Hset(p) \/ CheckVid(p) \/ FfprobeDuration(p) \/ LogProbe(p) \/ Probe(p)
    \/ Tier1(p) \/ Tier2(p) \/ Tier3(p) \/ LogAudio(p)
    \/ WhisperSrt(p) \/ RewriteSrt(p) \/ MakeVoText(p)
    \/ LogDone(p) \/ LogErr(p) \/ RmAudio(p) \/ RmVid(p)

\* The queue deployment: the intake enqueues, worker loops process.
Next ==
    \/ \E j \in Jobs : Upload(j) \/ UploadHset(j) \/ Enqueue(j)
    \/ \E p \in Workers : Brpop(p) \/ Hgetall(p) \/ Pipeline(p)

Spec == Init /\ [][Next]_vars

\* The queue deployment run with one worker process (python worker.py
\* started once), scheduled fairly: a worker that holds a job keeps executing
\* its loop iteration (run's while loop has no wait but the brpop), and every
\* stage call returns or raises.
SoloWorker == CHOOSE p \in Workers : \A q \in Workers : p <= q
NextSolo ==
    \/ \E j \in Jobs : Upload(j) \/ UploadHset(j) \/ Enqueue(j)
    \/ \E p \in {SoloWorker} : Brpop(p) \/ Hgetall(p) \/ Pipeline(p)

SpecSolo ==
    Init /\ [][NextSolo]_vars /\ WF_vars(Hgetall(SoloWorker) \/ Pipeline(SoloWorker))

\* The single-service deployment of main.py: upload adds a background task,
\* a thread of the pool runs process_job.
NextTask ==
    \/ \E j \in Jobs : Upload(j) \/ UploadHset(j) \/ AddTask(j)
    \/ \E p \in Threads : ProcessJob(p) \/ Pipeline(p)

SpecTask == Init /\ [][NextTask]_vars

\* The two drivers side by side over one store and one storage: each job is
\* handed either to the queue, where the one worker takes it, or to the
\* background tasks, where a thread runs process_job.
NextBoth ==
    \/ \E j \in Jobs : Upload(j) \/ UploadHset(j) \/ Enqueue(j) \/ AddTask(j)
    \/ \E p \in {SoloWorker} : Brpop(p) \/ Hgetall(p) \/ Pipeline(p)
    \/ \E p \in Threads : ProcessJob(p) \/ Pipeline(p)

SpecBoth == Init /\ [][NextBoth]_vars

\* The payment endpoints: requests arrive at any time and their coroutines
\* interleave at every await.
NextPay ==
    \E r \in Reqs :
       \/ WoocommerceWebhook(r) \/ WordpressPaymentWebhook(r)
       \/ WhSelect(r) \/ WhInsert(r) \/ WhMail(r)
       \/ RedeemToken(r) \/ RtSelect(r)
       \/ RedeemMyClaims(r) \/ McSelect(r)
       \/ AddSelect(r) \/ AddUpdate(r) \/ Mark(r)

SpecPay == Init /\ [][NextPay]_vars

\* ================================================================ properties
InQueue(j) == \E i \in 1..Len(queue) : queue[i] = j
InTasks(j) == \E t \in tasks : t.jid = j
Owner(j) == {p \in Procs : jid[p] = j}
Terminal(s) == s \in {"done", "error"}
Called(j, call, outcome) == \E i \in 1..Len(calls[j]) : calls[j][i] = <<call, outcome>>

\* the job was handed over and its driver has left the finally block
Finished(j) == up[j] = "handed" /\ ~InQueue(j) /\ ~InTasks(j) /\ Owner(j) = {}

\* the driver holds the job and has written nothing yet
JustStarted(p) ==
    jid[p] # 0 /\ (pc[p] = "hgetall" \/ (pc[p] = "check_vid" /\ Len(kv[p]) = 2))

\* ------------------------------------------------------------------------
\* C1  Queue exclusivity: brpop returns every enqueued job id at most once,
\* a job id that was enqueued and is no longer on the list was returned to
\* exactly one worker, and no two workers hold the same job id.
QueueExclusivity ==
    /\ \A j \in Jobs : Len(dequeued[j]) <= 1
    /\ \A j \in Jobs : (up[j] = "handed" /\ ~InQueue(j)) => Len(dequeued[j]) = 1
    /\ \A p, q \in Workers : (p # q /\ jid[p] # 0) => jid[p] # jid[q]

\* two workers hold a job each at the same time
TwoWorkersBusy ==
    \E p, q \in Workers : p # q /\ jid[p] # 0 /\ jid[q] # 0 /\ Len(queue) = 0

\* ------------------------------------------------------------------------
\* C2  Create before handoff: a job id that is pending as a task, on the
\* queue or held by a driver has its record fully written by upload
\* (status, progress, video, language, createdAt, no HSET outstanding), and
\* when the driver starts the record still reads status=queued, progress=0.
CreatedRecord(j) ==
    /\ Len(ukv[j]) = 0
    /\ store[j].status # NoStr
    /\ store[j].progress # NoInt
    /\ store[j].video = j
    /\ store[j].language = form[j]
    /\ store[j].createdAt # NoInt

CreateBeforeHandoff ==
    /\ \A t \in tasks : CreatedRecord(t.jid)
    /\ \A i \in 1..Len(queue) : CreatedRecord(queue[i])
    /\ \A p \in Procs : jid[p] # 0 => CreatedRecord(jid[p])
    /\ \A p \in Procs :
          JustStarted(p) => store[jid[p]].status = "queued" /\ store[jid[p]].progress = 0

\* process_job has just been started for a job
TaskJustStarted == \E p \in Threads : JustStarted(p)

\* ------------------------------------------------------------------------
\* C3 (as stated)  The status of every job record is one of queued,
\* audio_extract, transcribing, rewriting, voiceover, done, error.
SpecStatuses ==
    {"queued", "audio_extract", "transcribing", "rewriting", "voiceover", "done", "error"}

StatusInSpecEnum == \A j \in Jobs : Exists(j) => store[j].status \in SpecStatuses

\* C3 (amended)  The status of every job record is one of the eight values
\* the code writes: queued, downloading, audio_extract, whisper, rewrite, vo,
\* done, error.
CodeStatuses ==
    {"queued", "downloading", "audio_extract", "whisper", "rewrite", "vo", "done", "error"}

StatusInCodeEnum == \A j \in Jobs : Exists(j) => store[j].status \in CodeStatuses

\* a record carries a status the spec's enumeration does not have
StatusDownloadingSeen ==
    \E j \in Jobs : store[j].status \in {"downloading", "whisper", "rewrite", "vo"}

\* ------------------------------------------------------------------------
\* C4 (as stated)  Every change of a job's status is one step forward along
\* queued -> audio_extract -> transcribing -> rewriting -> voiceover -> done,
\* or a move to error from a non-terminal status.
SpecChain == <<"queued", "audio_extract", "transcribing", "rewriting", "voiceover", "done">>
CodeChain == <<"queued", "downloading", "audio_extract", "whisper", "rewrite", "vo", "done">>

Follows(chain, s, t) == \E i \in 1..(Len(chain) - 1) : chain[i] = s /\ chain[i + 1] = t

Forward(chain, s, t) ==
    \/ s = t
    \/ s = NoStr /\ t = chain[1]
    \/ Follows(chain, s, t)
    \/ t = "error" /\ s # NoStr /\ ~Terminal(s)

StatusForwardInSpecChain ==
    [][\A j \in Jobs : Forward(SpecChain, store[j].status, store'[j].status)]_vars

\* C4 (amended)  Every change of a job's status is one step forward along
\* queued -> downloading -> audio_extract -> whisper -> rewrite -> vo -> done,
\* or a move to error from a non-terminal status; no status is written again
\* after it was left and no job moves to an earlier status.
StatusForwardInCodeChain ==
    [][\A j \in Jobs : Forward(CodeChain, store[j].status, store'[j].status)]_vars

\* one job went through the whole chain, another ended in error
DoneAndErrorSeen ==
    \E j, k \in Jobs : store[j].status = "done" /\ store[k].status = "error"

\* ------------------------------------------------------------------------
\* C5 (as stated)  Once a job's status is done or error, no step changes any
\* field of its record.
TerminalRecordFrozen ==
    [][\A j \in Jobs : Terminal(store[j].status) => store'[j] = store[j]]_vars

\* C5 (amended)  Once a job's status is done or error, no step changes the
\* status, nor video, language, createdAt and durationSec; the driver still
\* writes the rest of the same update (progress and result after done, error
\* after error) and appends one log line, and from the cleanup phase on no
\* field of the record changes.
InCleanup(j) == \A p \in Owner(j) : pc[p] \in {"rm_audio", "rm_vid"}

TerminalStatusFinal ==
    [][\A j \in Jobs : Terminal(store[j].status) =>
          /\ store'[j].status = store[j].status
          /\ store'[j].video = store[j].video
          /\ store'[j].language = store[j].language
          /\ store'[j].createdAt = store[j].createdAt
          /\ store'[j].durationSec = store[j].durationSec
          /\ (store[j].status = "done" => store'[j].error = NoSeq)
          /\ (store[j].status = "error" =>
                store'[j].result = NoPath /\ store'[j].progress = store[j].progress)
          /\ Len(store'[j].log) <= Len(store[j].log) + 1
          /\ (InCleanup(j) => store'[j] = store[j])]_vars

\* a job is done, its last log line written, and its worker has moved on
DoneJobFinished ==
    \E j \in Jobs :
       /\ store[j].status = "done"
       /\ Finished(j)
       /\ store[j].log[Len(store[j].log)] = <<"done">>

\* ------------------------------------------------------------------------
\* C6  error and result are never both present; error is present only when
\* status=error, result only when status=done.
ErrorResultExclusive ==
    \A j \in Jobs :
       /\ ~(store[j].error # NoSeq /\ store[j].result # NoPath)
       /\ (store[j].error # NoSeq => store[j].status = "error")
       /\ (store[j].result # NoPath => store[j].status = "done")

\* one record holds an error and another a result
ErrorAndResultSeen ==
    \E j, k \in Jobs : store[j].error # NoSeq /\ store[k].result # NoPath

\* ------------------------------------------------------------------------
\* C7  Progress monotonicity: no step lowers the progress of a job record,
\* and a progress once written stays written.
ProgressMonotonic ==
    [][\A j \in Jobs :
          store[j].progress # NoInt => store'[j].progress >= store[j].progress]_vars

\* a job failed in the rewrite stage, its progress staying at 70, and
\* another reached 100
FailedAtSeventy ==
    \E j, k \in Jobs :
       /\ store[j].status = "error" /\ store[j].progress = 70
       /\ store[k].progress = 100

\* ------------------------------------------------------------------------
\* C8 (as stated, in the case most favourable to it: the driver has left the
\* cleanup phase and no deletion raised)  For a job whose status is done or
\* error, neither the source file nor any output of the extraction ladder
\* exists.
CleanupInvariant ==
    \A j \in Jobs :
       (/\ Terminal(store[j].status)
        /\ Finished(j)
        /\ ~Called(j, "unlink_audio", "raised")
        /\ ~Called(j, "unlink_vid", "raised"))
       => ~fs[j].video /\ ~fs[j].copy /\ ~fs[j].aac /\ ~fs[j].wav

\* ------------------------------------------------------------------------
\* C9 (as stated)  When the rewrite stage's remote call fails, the job is not
\* moved to error, and once its driver is through, the job is done, the
\* rewritten transcript is the original transcript and the voice-over stage
\* has run.
RewriteDegradation ==
    \A j \in Jobs :
       Called(j, "rewrite_srt", "raised") =>
          /\ store[j].status # "error"
          /\ (Finished(j) =>
                /\ store[j].status = "done"
                /\ fs[j].rewritten = fs[j].srt
                /\ \E o \in {"ok", "raised"} : Called(j, "make_vo_text", o))

\* ------------------------------------------------------------------------
\* C10 (as stated)  When the voice-over stage's remote call fails, the job is
\* not moved to error, and once its driver is through, the job is done and
\* the voice-over script exists.
VoSoftFailure ==
    \A j \in Jobs :
       Called(j, "make_vo_text", "raised") =>
          /\ store[j].status # "error"
          /\ (Finished(j) => store[j].status = "done" /\ fs[j].vo # NoFile)

\* ------------------------------------------------------------------------
\* the calls of the extraction ladder made for job j, in order
IsTierCall(c) == c[1] \in {"copy", "aac", "wav"}
LadderCalls(j) == SelectSeq(calls[j], IsTierCall)
TierOrder == <<"copy", "aac", "wav">>

\* C11  The ladder's tiers are invoked in the order copy, aac, wav; a tier is
\* invoked only after every tier before it has failed, so no tier is invoked
\* after one that succeeded; and the audio path the extraction returns to the
\* driver is the output of the tier that succeeded.
LadderOrder ==
    /\ \A j \in Jobs :
          LET L == LadderCalls(j)
          IN  /\ Len(L) <= Len(TierOrder)
              /\ \A i \in 1..Len(L) :
                    /\ L[i][1] = TierOrder[i]
                    /\ (i < Len(L) => L[i][2] = "failed")
    /\ \A p \in Procs :
          jid[p] # 0 =>
             LET L == LadderCalls(jid[p])
             IN  /\ audio_path[p] # "none" => Len(L) > 0 /\ L[Len(L)] = <<audio_path[p], "ok">>
                 /\ (Len(L) > 0 /\ L[Len(L)][2] = "ok") => audio_path[p] = L[Len(L)][1]

\* the first tier failed and the second succeeded, and the job went on to
\* transcription with the second tier's output
SecondTierWon ==
    \E p \in Procs :
       /\ jid[p] # 0
       /\ LadderCalls(jid[p]) = <<<<"copy", "failed">>, <<"aac", "ok">>>>
       /\ audio_path[p] = "aac"
       /\ pc[p] = "whisper"

\* ------------------------------------------------------------------------
Contains(seq, x) == \E i \in 1..Len(seq) : seq[i] = x
LadderExhausted(j) ==
    Called(j, "copy", "failed") /\ Called(j, "aac", "failed") /\ Called(j, "wav", "failed")
RemoteCalled(j) ==
    \E i \in 1..Len(calls[j]) : calls[j][i][1] \in {"whisper_srt", "rewrite_srt", "make_vo_text"}

\* C12  When all three tiers have failed for a job, no transcription, rewrite
\* or voice-over is invoked for it and its status never becomes done; once
\* its driver is through, its status is error and its error message holds
\* the diagnostic of each of the three tier attempts.
LadderExhaustion ==
    \A j \in Jobs :
       LadderExhausted(j) =>
          /\ ~RemoteCalled(j)
          /\ store[j].status # "done"
          /\ (Finished(j) =>
                /\ store[j].status = "error"
                /\ Contains(store[j].error, "[copy]e1")
                /\ Contains(store[j].error, "[aac ]e2")
                /\ Contains(store[j].error, "[wav ]e3"))

\* a job whose three tiers failed has been through its driver
ExhaustedJobFinished == \E j \in Jobs : LadderExhausted(j) /\ Finished(j)

\* ------------------------------------------------------------------------
\* the source of job j was there when its driver looked and has no audio
NoAudioSource(j) == Called(j, "ffprobe_duration", "ok") /\ ~fs[j].hasAudio

\* C13  For a source with no audio stream no tier of the ladder is invoked
\* and no remote stage either; the extraction raises as soon as the probe has
\* answered, and once the driver is through the job's status is error with
\* the no-audio message.
NoAudioShortCircuit ==
    \A j \in Jobs :
       NoAudioSource(j) =>
          /\ LadderCalls(j) = << >>
          /\ ~RemoteCalled(j)
          /\ store[j].status # "done"
          /\ (Finished(j) =>
                store[j].status = "error" /\ store[j].error = <<"no audio track">>)

\* a job with a source without audio has been through its driver
NoAudioJobFinished == \E j \in Jobs : NoAudioSource(j) /\ Finished(j)

\* ------------------------------------------------------------------------
\* one tier of the ladder and the three remote stages succeeded for job j
AllStagesSucceeded(j) ==
    /\ \E t \in {"copy", "aac", "wav"} : Called(j, t, "ok")
    /\ Called(j, "whisper_srt", "ok")
    /\ Called(j, "rewrite_srt", "ok")
    /\ Called(j, "make_vo_text", "ok")
\* how many times the artifact was written at the path named by job j
Writes(j, artifact) ==
    Len(SelectSeq(calls[j], LAMBDA c : c = <<"write_text", artifact>>))

\* C14  When every stage succeeded for a job and its driver is through, the
\* record has status done, progress 100 and the result reference of the
\* job, and the transcript, the rewritten transcript and the voice-over
\* script each exist at the path named by the job id and were each written
\* exactly once; an artifact exists at a job's path only when that job's own
\* run wrote it.
SuccessfulRun ==
    \A j \in Jobs :
       /\ (AllStagesSucceeded(j) /\ Finished(j)) =>
             /\ store[j].status = "done"
             /\ store[j].progress = 100
             /\ store[j].result = j
             /\ fs[j].srt # NoFile /\ Writes(j, "srt") = 1
             /\ fs[j].rewritten # NoFile /\ Writes(j, "rewritten") = 1
             /\ fs[j].vo # NoFile /\ Writes(j, "vo") = 1
       /\ (fs[j].srt # NoFile) = (Writes(j, "srt") = 1)
       /\ (fs[j].rewritten # NoFile) = (Writes(j, "rewritten") = 1)
       /\ (fs[j].vo # NoFile) = (Writes(j, "vo") = 1)

\* a job all of whose stages succeeded has been through its driver
SuccessfulJobFinished == \E j \in Jobs : AllStagesSucceeded(j) /\ Finished(j)

\* ------------------------------------------------------------------------
\* C15 (as stated)  The download boundary serves an artifact of a job only
\* in states where the job's status is done.
ArtifactReadiness ==
    \A j \in Jobs : \A kind \in Kinds :
       Download(j, kind).code = 200 => store[j].status = "done"

\* ------------------------------------------------------------------------
Processed(j) == Len(dequeued[j]) > 0

\* C16  A worker that holds a job always has a next step inside its loop
\* iteration, whatever stage or deletion failed, and an idle worker takes the
\* next id when the queue holds one; a processed job whose stages did not
\* all succeed is recorded as error once the worker is through with it.
WorkerLoopSurvives ==
    /\ \A p \in Workers :
          IF pc[p] = "idle"
             THEN jid[p] = 0 /\ (Len(queue) > 0 => ENABLED Brpop(p))
             ELSE ENABLED (Hgetall(p) \/ Pipeline(p))
    /\ \A j \in Jobs :
          (Processed(j) /\ Finished(j)) =>
             IF AllStagesSucceeded(j)
                THEN store[j].status = "done"
                ELSE store[j].status = "error"

\* a worker recorded a failed job as error, went back to the queue and now
\* processes the next job
NextJobAfterFailure ==
    \E p \in Workers : \E j \in Jobs :
       /\ dequeued[j] = <<p>>
       /\ Finished(j)
       /\ store[j].status = "error"
       /\ jid[p] # 0
       /\ pc[p] = "whisper"

\* ------------------------------------------------------------------------
\* how many times the call was made for job j
CallCount(j, call) == Len(SelectSeq(calls[j], LAMBDA c : c[1] = call))
OncePerJob ==
    {"ffprobe_duration", "copy", "aac", "wav", "whisper_srt", "rewrite_srt", "make_vo_text"}

\* C17  A job id comes onto the queue only by the intake's handoff, never by
\* a worker's step; it is dequeued at most once and every stage call is made
\* at most once for it; and a status of error stays error.
SingleAttempt ==
    [][\A j \in Jobs :
          /\ (InQueue(j)' /\ ~InQueue(j)) => (up[j] = "created" /\ up'[j] = "handed")
          /\ Len(queue') <= Len(queue) + 1
          /\ Len(dequeued'[j]) <= 1
          /\ \A call \in OncePerJob : CallCount(j, call)' <= 1
          /\ (store[j].status = "error" => store'[j].status = "error")]_vars

\* every job was handed over, one failed, and the workers poll an empty queue
FailedJobLeftAlone ==
    /\ \A j \in Jobs : Finished(j)
    /\ \A p \in Workers : pc[p] = "idle"
    /\ \E j \in Jobs : store[j].status = "error" /\ Called(j, "whisper_srt", "raised")

\* ------------------------------------------------------------------------
\* C18  Under fair scheduling of the workers, every job id that was dequeued
\* eventually has status done or error.
RunToCompletion ==
    \A j \in Jobs : Processed(j) ~> Terminal(store[j].status)

\* a dequeued job whose status has become terminal while its worker is still
\* in the iteration
DequeuedJobTerminal ==
    \E j \in Jobs : \E p \in Workers :
       Processed(j) /\ jid[p] = j /\ Terminal(store[j].status) /\ pc[p] = "rm_audio"

\* ------------------------------------------------------------------------
\* the webhook deliveries for order o that were answered with a token
Delivered(o) ==
    {r \in Reqs : /\ req[r].op \in {"woocommerce_webhook", "wordpress_payment_webhook"}
                  /\ req[r].order = o
                  /\ req[r].pc = "done"
                  /\ req[r].code = 200}

\* C19 (as stated)  For every order id, credit_claims holds at most one row,
\* and all the webhook deliveries answered with a token were answered with
\* the same token.
WebhookIdempotency ==
    \A o \in Orders :
       /\ Cardinality(ClaimsOfOrder(o)) <= 1
       /\ \A r1, r2 \in Delivered(o) : req[r1].out = req[r2].out

\* ------------------------------------------------------------------------
\* C20 (as stated)  The credits of a claim token are added to the users'
\* balances at most once, over all the redeem_token and redeem_my_claims
\* requests.
OneTimeToken == \A t \in Tokens : granted[t] <= 1

\* ------------------------------------------------------------------------
\* the status and the progress checkpoint the record holds while the call is
\* made: the code's status of the stage the call belongs to
StageOfCall(call) ==
    IF call = "ffprobe_duration" THEN <<"downloading", 5>>
    ELSE IF call \in {"ffprobe_has_audio", "copy", "aac", "wav"} THEN <<"audio_extract", 15>>
    ELSE IF call = "whisper_srt" THEN <<"whisper", 40>>
    ELSE IF call = "rewrite_srt" THEN <<"rewrite", 70>>
    ELSE <<"vo", 85>>
StageCallNames ==
    {"ffprobe_duration", "ffprobe_has_audio", "copy", "aac", "wav",
     "whisper_srt", "rewrite_srt", "make_vo_text"}
\* the stage that must have succeeded before the call is made
Needs(j, call) ==
    IF call = "whisper_srt" THEN \E t \in {"copy", "aac", "wav"} : Called(j, t, "ok")
    ELSE IF call = "rewrite_srt" THEN Called(j, "whisper_srt", "ok")
    ELSE IF call = "make_vo_text" THEN Called(j, "rewrite_srt", "ok")
    ELSE ~RemoteCalled(j)

\* C21  Whenever a call of a stage is made for a job, the record already
\* holds that stage's status and its progress checkpoint (5 after the
\* dequeue, 15 extraction, 40 transcription, 70 rewrite, 85 voice-over), both
\* written, and the stage before it has succeeded: extraction, transcription,
\* rewrite, voice-over are invoked in this order.
StatusBeforeStage ==
    [][\A j \in Jobs :
          Len(calls'[j]) > Len(calls[j]) =>
             LET call == calls'[j][Len(calls[j]) + 1][1]
             IN  call \in StageCallNames =>
                    /\ store[j].status = StageOfCall(call)[1]
                    /\ store[j].progress = StageOfCall(call)[2]
                    /\ store'[j].status = store[j].status
                    /\ Needs(j, call)]_vars

\* the voice-over call has been made with status vo and progress 85 in the
\* record
VoCalledAtEightyFive ==
    \E j \in Jobs :
       /\ Called(j, "make_vo_text", "raised")
       /\ store[j].status = "vo"
       /\ store[j].progress = 85

\* ------------------------------------------------------------------------
\* the failure description the except clause records for a failed stage
ExtractionFailed(j) ==
    LadderExhausted(j) \/ (NoAudioSource(j) /\ CallCount(j, "ffprobe_has_audio") = 2)
FailureOf(j) ==
    IF Called(j, "whisper_srt", "raised") THEN <<"transcription failed">>
    ELSE IF Called(j, "rewrite_srt", "raised") THEN <<"rewrite failed">>
    ELSE IF Called(j, "make_vo_text", "raised") THEN <<"voice-over failed">>
    ELSE IF LadderExhausted(j) THEN LadderMsg
    ELSE <<"no audio track">>
StageFailed(j) ==
    \/ ExtractionFailed(j)
    \/ \E c \in {"whisper_srt", "rewrite_srt", "make_vo_text"} : Called(j, c, "raised")

\* C22  When a stage has raised for a job, no later stage is invoked and no
\* artifact of the failed stage or of a later one is written, the result
\* field is never written and the status never becomes done; once the driver
\* is through, the status is error and the error field holds the description
\* of that failure.
AbortOnStageFailure ==
    \A j \in Jobs :
       StageFailed(j) =>
          /\ ExtractionFailed(j) => ~RemoteCalled(j)
          /\ (ExtractionFailed(j) \/ Called(j, "whisper_srt", "raised")) =>
                /\ fs[j].srt = NoFile
                /\ CallCount(j, "rewrite_srt") = 0
          /\ ~Called(j, "rewrite_srt", "ok") =>
                /\ fs[j].rewritten = NoFile
                /\ CallCount(j, "make_vo_text") = 0
          /\ fs[j].vo = NoFile
          /\ store[j].result = NoPath
          /\ store[j].status # "done"
          /\ (Finished(j) =>
                store[j].status = "error" /\ store[j].error = FailureOf(j))

\* the rewrite call raised and the job has been through its driver
RewriteFailureFinished ==
    \E j \in Jobs : Called(j, "rewrite_srt", "raised") /\ Finished(j)

\* ------------------------------------------------------------------------
\* the external subprocesses: ffprobe (the two probes) and ffmpeg (the tiers)
FfprobeCalls == {"ffprobe_duration", "ffprobe_has_audio"}
FfmpegCalls == {"copy", "aac", "wav"}
SubprocessCalled(j, names) == \E i \in 1..Len(calls[j]) : calls[j][i][1] \in names
\* the driver of job j is past its source check and the source is not there
SourceMissing(j) ==
    \E p \in Owner(j) : pc[p] \notin {"hgetall", "check_vid"} /\ ~fs[j].video

\* C23 (as stated)  When the source file is missing or the source has no
\* audio track, no external subprocess is invoked for the job.
InputErrorsFailFast ==
    \A j \in Jobs :
       (SourceMissing(j) \/ NoAudioSource(j)) =>
          ~SubprocessCalled(j, FfprobeCalls \cup FfmpegCalls)

\* C23 (amended)  When the source file is missing, nothing at all is invoked
\* for the job and a job that went through its driver without any call ends
\* in error with the missing-file message.  When the source has no audio
\* track, the only subprocesses invoked are the ffprobe probes (the duration
\* once, the audio streams at most twice), no ffmpeg tier, and the job ends
\* in error.
InputErrorsBeforeFfmpeg ==
    \A j \in Jobs :
       /\ SourceMissing(j) => calls[j] = << >> /\ store[j].status # "done"
       /\ (Processed(j) /\ Finished(j) /\ calls[j] = << >>) =>
             /\ store[j].status = "error"
             /\ store[j].error = <<"uploaded file missing">>
       /\ NoAudioSource(j) =>
             /\ ~SubprocessCalled(j, FfmpegCalls)
             /\ CallCount(j, "ffprobe_duration") = 1
             /\ CallCount(j, "ffprobe_has_audio") <= 2
             /\ (Finished(j) => store[j].status = "error")

\* one job with a missing source and one with a source without audio have
\* both been through a worker
BothInputErrorsFinished ==
    \E j, k \in Jobs :
       /\ Processed(j) /\ Finished(j) /\ calls[j] = << >>
       /\ NoAudioSource(k) /\ Finished(k) /\ CallCount(k, "ffprobe_has_audio") = 2

\* ------------------------------------------------------------------------
DeletionRaised(j) == Called(j, "unlink_audio", "raised") \/ Called(j, "unlink_vid", "raised")

\* C24  While a job is in the cleanup phase, whatever the deletions do, no
\* step changes its status, error or result, and the worker's step out of
\* the cleanup phase goes to the next deletion or back to polling the queue;
\* a job one of whose deletions raised still has the terminal status written
\* before the cleanup, with the error or the result that goes with it.
CleanupFailuresHarmless ==
    [][/\ \A p \in Workers :
             pc[p] \in {"rm_audio", "rm_vid"} =>
                /\ store'[jid[p]].status = store[jid[p]].status
                /\ store'[jid[p]].error = store[jid[p]].error
                /\ store'[jid[p]].result = store[jid[p]].result
                /\ pc'[p] \in {pc[p], "rm_vid", "idle"}
       /\ \A j \in Jobs :
             DeletionRaised(j)' =>
                /\ Terminal(store'[j].status)
                /\ (store'[j].status = "done") = AllStagesSucceeded(j)'
                /\ (store'[j].status = "done") = (store'[j].result # NoPath)
                /\ (store'[j].status = "error") = (store'[j].error # NoSeq)]_vars

\* a worker whose deletion raised for a job that was done has taken the next
\* job from the queue
NextJobAfterDeletionRaised ==
    \E p \in Workers : \E j \in Jobs :
       /\ dequeued[j] = <<p>>
       /\ DeletionRaised(j)
       /\ store[j].status = "done"
       /\ jid[p] \notin {0, j}

\* ------------------------------------------------------------------------
\* C25 (as stated)  A status poll never returns a record whose status is done
\* while progress is not 100 or result is absent, nor a record whose status
\* is error while the error field is absent.
AtomicFieldMerge ==
    \A j \in Jobs :
       JobStatus(j).code = 200 =>
          LET d == JobStatus(j).body
          IN  /\ d.status = "done" => (d.progress = 100 /\ d.result # NoPath)
              /\ d.status = "error" => d.error # NoSeq

\* ------------------------------------------------------------------------
\* C26 (as stated)  When the deletion of the derived audio file has failed,
\* the source file is not left on storage once the driver is through.
BothDeletionsAttempted ==
    \A j \in Jobs :
       (Called(j, "unlink_audio", "raised") /\ Finished(j)) => ~fs[j].video

\* ------------------------------------------------------------------------
\* the job went through one iteration of worker.run / through process_job
RanByWorker(j) == Processed(j) /\ Finished(j)
RanByThread(j) == ~Processed(j) /\ Finished(j)
\* the outcomes the run of job j met: the source check (no call at all for a
\* missing source), the probes, the tiers and the remote stages with what
\* they returned
StageCalls(j) == SelectSeq(calls[j], LAMBDA c : c[1] \notin {"unlink_audio", "unlink_vid"})
\* the files the cleanup of job j deleted
Deleted(j) ==
    {c \in {"unlink_audio", "unlink_vid"} : Called(j, c, "ok")}

====
